---------------------------- MODULE Spec2Model ----------------------------
(***************************************************************************)
(* Model of CPMModelConverter (src/cpm_converter.py): the heuristic        *)
(* scanner read_cpmmodel, the packager create_cpmproject, the top-level    *)
(* convert_cpmmodel_to_cpmproject and the batch_convert loop.              *)
(*                                                                         *)
(* A buffer is a sequence of bytes (integers 0..255).  Offsets are the     *)
(* 0-based offsets of the Python code; At(data, i) reads byte i.           *)
(***************************************************************************)
EXTENDS Integers, Sequences, FiniteSets, TLC

VARIABLES
    data,        \* bytes of the input file (f.read())
    model_data,  \* what read_cpmmodel returned / what create_cpmproject is given
    archive,     \* entries written to the output ZIP, in order
    raised,      \* exception that left the last call ("" = none)
    ret,         \* value returned by the last call, <<>> = None, <<v>> = v
    reported,    \* the number printed as "textures extracted", <<>> = nothing printed
    pc,          \* position of the driver
    files,       \* batch: os.listdir(input_directory), a sequence of file records
    idx,         \* batch: index of the next file of cpmmodel_files
    results,     \* batch: the results dictionary
    attempts,    \* batch: the conversions attempted so far, in order
    call         \* the last call made and its inputs

vars == <<data, model_data, archive, raised, ret, reported, pc, files, idx,
          results, attempts, call>>

----------------------------------------------------------------------------
(* Bounds of the model *)

MaxJsonChunks == 4
MaxPngChunks == 6
MaxConvertChunks == 3
MaxFiles == 3
MaxTextures == 2

----------------------------------------------------------------------------
(* Bytes and byte strings *)

At(d, i) == d[i + 1]

\* Python slice d[a:b] for 0 <= a, with b clipped to len(d)
Slice(d, a, b) ==
    LET e == IF b > Len(d) THEN Len(d) ELSE b
    IN  IF a >= e THEN <<>> ELSE SubSeq(d, a + 1, e)

\* d[i:i+len(pat)] == pat
MatchAt(d, pat, i) ==
    /\ i + Len(pat) <= Len(d)
    /\ \A k \in 1..Len(pat) : d[i + k] = pat[k]

\* bytes.find(pat, start): lowest offset >= start where pat occurs, else -1
Find(d, pat, start) ==
    LET hits == {i \in start..(Len(d) - Len(pat)) : MatchAt(d, pat, i)}
    IN  IF hits = {} THEN -1 ELSE CHOOSE i \in hits : \A j \in hits : i <= j

png_signature == <<137, 80, 78, 71, 13, 10, 26, 10>>   \* b'\x89PNG\r\n\x1a\n'
IEND == <<73, 69, 78, 68>>                             \* b'IEND'

OpenBrace == 123     \* ord('{')
CloseBrace == 125    \* ord('}')

----------------------------------------------------------------------------
(* bytes.decode('utf-8'): succeeds iff the bytes are well-formed UTF-8 *)

IsCont(b) == b >= 128 /\ b <= 191

RECURSIVE Utf8Valid(_, _)
Utf8Valid(d, p) ==
    IF p > Len(d) THEN TRUE
    ELSE LET b == d[p] IN
         IF b < 128 THEN Utf8Valid(d, p + 1)
         ELSE IF b >= 194 /\ b <= 223
              THEN p + 1 <= Len(d) /\ IsCont(d[p + 1]) /\ Utf8Valid(d, p + 2)
         ELSE IF b >= 224 /\ b <= 239
              THEN /\ p + 2 <= Len(d)
                   /\ IsCont(d[p + 1]) /\ IsCont(d[p + 2])
                   /\ (b = 224 => d[p + 1] >= 160)
                   /\ (b = 237 => d[p + 1] <= 159)
                   /\ Utf8Valid(d, p + 3)
         ELSE IF b >= 240 /\ b <= 244
              THEN /\ p + 3 <= Len(d)
                   /\ IsCont(d[p + 1]) /\ IsCont(d[p + 2]) /\ IsCont(d[p + 3])
                   /\ (b = 240 => d[p + 1] >= 144)
                   /\ (b = 244 => d[p + 1] <= 143)
                   /\ Utf8Valid(d, p + 4)
         ELSE FALSE

----------------------------------------------------------------------------
(* JSON values, as json.loads builds them.                                 *)
(*   number  [t |-> "num",  v |-> <<n>>]                                   *)
(*   string  [t |-> "str",  v |-> bytes]                                   *)
(*   list    [t |-> "list", v |-> <<values>>]                              *)
(*   dict    [t |-> "dict", v |-> <<[k |-> bytes, val |-> value], ...>>]   *)
(* A dict keeps its keys in insertion order and a repeated key keeps its    *)
(* first position and takes the last value, as a Python dict does.         *)

JNum(n) == [t |-> "num", v |-> <<n>>]
JStr(s) == [t |-> "str", v |-> s]
JList(xs) == [t |-> "list", v |-> xs]
JDict(ms) == [t |-> "dict", v |-> ms]

\* d[k] = val on a dict's member list
DictSet(ms, k, val) ==
    IF \E i \in 1..Len(ms) : ms[i].k = k
    THEN [i \in 1..Len(ms) |-> IF ms[i].k = k THEN [k |-> k, val |-> val] ELSE ms[i]]
    ELSE Append(ms, [k |-> k, val |-> val])

HasKey(j, k) == j.t = "dict" /\ \E i \in 1..Len(j.v) : j.v[i].k = k

\* dict.get(k) for a key that is present
DictGet(j, k) == j.v[CHOOSE i \in 1..Len(j.v) : j.v[i].k = k].val

\* Python truth value of a JSON value: bool(x)
Truthy(j) ==
    IF j.t \in {"num", "float"} THEN j.v[1] # 0 ELSE Len(j.v) > 0

Fail(p) == [ok |-> FALSE, val |-> JNum(0), pos |-> p]
Ok(val, p) == [ok |-> TRUE, val |-> val, pos |-> p]

IsWs(b) == b \in {32, 9, 10, 13}
IsDigit(b) == b >= 48 /\ b <= 57

RECURSIVE SkipWs(_, _)
SkipWs(s, p) == IF p <= Len(s) /\ IsWs(s[p]) THEN SkipWs(s, p + 1) ELSE p

\* the closing quote of a string whose content starts at p; 0 when the string
\* is unterminated or holds a control character (strict mode).  Escape
\* sequences are not modelled: no modelled buffer holds a backslash (92).
RECURSIVE StringEnd(_, _)
StringEnd(s, p) ==
    IF p > Len(s) THEN 0
    ELSE IF s[p] = 34 THEN p
    ELSE IF s[p] < 32 \/ s[p] = 92 THEN 0
    ELSE StringEnd(s, p + 1)

\* s[p] = '"': the string literal starting at p
ParseString(s, p) ==
    LET e == StringEnd(s, p + 1)
    IN  IF e = 0 THEN Fail(p) ELSE Ok(JStr(SubSeq(s, p + 1, e - 1)), e + 1)

RECURSIVE DigitsEnd(_, _)
DigitsEnd(s, p) == IF p <= Len(s) /\ IsDigit(s[p]) THEN DigitsEnd(s, p + 1) ELSE p

RECURSIVE DigitsValue(_, _, _, _)
DigitsValue(s, p, e, acc) ==
    IF p >= e THEN acc ELSE DigitsValue(s, p + 1, e, acc * 10 + (s[p] - 48))

\* s[p] is a digit: the integer literal 0 | [1-9][0-9]*
ParseNumber(s, p) ==
    IF s[p] = 48 THEN Ok(JNum(0), p + 1)
    ELSE LET e == DigitsEnd(s, p) IN Ok(JNum(DigitsValue(s, p, e, 0)), e)

RECURSIVE ParseValue(_, _)
RECURSIVE ParseMembers(_, _, _)
RECURSIVE ParseElements(_, _, _)

\* members of an object; p is at the '"' that must open the next key
ParseMembers(s, p, ms) ==
    IF p > Len(s) \/ s[p] # 34 THEN Fail(p)
    ELSE LET key == ParseString(s, p) IN
         IF ~key.ok THEN Fail(p)
         ELSE LET c == SkipWs(s, key.pos) IN
              IF c > Len(s) \/ s[c] # 58 THEN Fail(c)
              ELSE LET val == ParseValue(s, SkipWs(s, c + 1)) IN
                   IF ~val.ok THEN Fail(c)
                   ELSE LET ms2 == DictSet(ms, key.val.v, val.val)
                            q == SkipWs(s, val.pos)
                        IN  IF q > Len(s) THEN Fail(q)
                            ELSE IF s[q] = CloseBrace THEN Ok(JDict(ms2), q + 1)
                            ELSE IF s[q] = 44 THEN ParseMembers(s, SkipWs(s, q + 1), ms2)
                            ELSE Fail(q)

\* elements of an array; p is at the start of the next value
ParseElements(s, p, xs) ==
    LET val == ParseValue(s, p) IN
    IF ~val.ok THEN Fail(p)
    ELSE LET xs2 == Append(xs, val.val)
             q == SkipWs(s, val.pos)
         IN  IF q > Len(s) THEN Fail(q)
             ELSE IF s[q] = 93 THEN Ok(JList(xs2), q + 1)
             ELSE IF s[q] = 44 THEN ParseElements(s, SkipWs(s, q + 1), xs2)
             ELSE Fail(q)

ParseValue(s, p) ==
    IF p > Len(s) THEN Fail(p)
    ELSE IF s[p] = 34 THEN ParseString(s, p)
    ELSE IF s[p] = OpenBrace
         THEN LET q == SkipWs(s, p + 1) IN
              IF q <= Len(s) /\ s[q] = CloseBrace THEN Ok(JDict(<<>>), q + 1)
              ELSE ParseMembers(s, q, <<>>)
    ELSE IF s[p] = 91
         THEN LET q == SkipWs(s, p + 1) IN
              IF q <= Len(s) /\ s[q] = 93 THEN Ok(JList(<<>>), q + 1)
              ELSE ParseElements(s, q, <<>>)
    ELSE IF IsDigit(s[p]) THEN ParseNumber(s, p)
    ELSE Fail(p)

\* json.loads(text): one value, surrounded by optional whitespace, and nothing else
JsonLoads(s) ==
    LET r == ParseValue(s, SkipWs(s, 1)) IN
    IF r.ok /\ SkipWs(s, r.pos) > Len(s) THEN Ok(r.val, r.pos) ELSE Fail(0)

\* data[i:json_end].decode('utf-8') then json.loads: Fail stands for the
\* UnicodeDecodeError or JSONDecodeError caught at line 114
DecodeAndLoad(d) == IF Utf8Valid(d, 1) THEN JsonLoads(d) ELSE Fail(0)

----------------------------------------------------------------------------
(* Keys of the model documents, as the bytes of their text *)

K_version == <<118, 101, 114, 115, 105, 111, 110>>   \* "version"
K_parts == <<112, 97, 114, 116, 115>>   \* "parts"
K_animations == <<97, 110, 105, 109, 97, 116, 105, 111, 110, 115>>   \* "animations"
K_poses == <<112, 111, 115, 101, 115>>   \* "poses"
K_scaling == <<115, 99, 97, 108, 105, 110, 103>>   \* "scaling"
K_root == <<114, 111, 111, 116>>   \* "root"
K_head == <<104, 101, 97, 100>>   \* "head"
K_body == <<98, 111, 100, 121>>   \* "body"
K_leftArm == <<108, 101, 102, 116, 65, 114, 109>>   \* "leftArm"
K_rightArm == <<114, 105, 103, 104, 116, 65, 114, 109>>   \* "rightArm"
K_leftLeg == <<108, 101, 102, 116, 76, 101, 103>>   \* "leftLeg"
K_rightLeg == <<114, 105, 103, 104, 116, 76, 101, 103>>   \* "rightLeg"

JFloat(n) == [t |-> "float", v |-> <<n>>]    \* the float n.0
Member(k, val) == [k |-> k, val |-> val]

\* lines 147-153: the skeleton read_cpmmodel substitutes for an empty model
FallbackSkeleton ==
    JDict(<< Member(K_version, JNum(1)),
             Member(K_parts, JList(<<>>)),
             Member(K_animations, JDict(<<>>)),
             Member(K_poses, JDict(<<>>)),
             Member(K_scaling, JDict(<<>>)) >>)

UnitScale == JList(<<JFloat(1), JFloat(1), JFloat(1)>>)

\* lines 197-211: the document create_cpmproject substitutes
DefaultModel ==
    JDict(<< Member(K_version, JNum(11)),
             Member(K_parts, JList(<<>>)),
             Member(K_scaling,
                    JDict(<< Member(K_head, UnitScale),
                             Member(K_body, UnitScale),
                             Member(K_leftArm, UnitScale),
                             Member(K_rightArm, UnitScale),
                             Member(K_leftLeg, UnitScale),
                             Member(K_rightLeg, UnitScale) >>)),
             Member(K_animations, JDict(<<>>)),
             Member(K_poses, JDict(<<>>)),
             Member(K_root, JList(<<>>)) >>)

----------------------------------------------------------------------------
(* Strings: file names and archive entry names *)

StartsWith(s, prefix) ==
    Len(s) >= Len(prefix) /\ SubSeq(s, 1, Len(prefix)) = prefix

EndsWith(s, suffix) ==
    Len(s) >= Len(suffix) /\ SubSeq(s, Len(s) - Len(suffix) + 1, Len(s)) = suffix

LowerChar(c) ==
    CASE c = "A" -> "a" [] c = "B" -> "b" [] c = "C" -> "c" [] c = "D" -> "d"
      [] c = "E" -> "e" [] c = "F" -> "f" [] c = "G" -> "g" [] c = "H" -> "h"
      [] c = "I" -> "i" [] c = "J" -> "j" [] c = "K" -> "k" [] c = "L" -> "l"
      [] c = "M" -> "m" [] c = "N" -> "n" [] c = "O" -> "o" [] c = "P" -> "p"
      [] c = "Q" -> "q" [] c = "R" -> "r" [] c = "S" -> "s" [] c = "T" -> "t"
      [] c = "U" -> "u" [] c = "V" -> "v" [] c = "W" -> "w" [] c = "X" -> "x"
      [] c = "Y" -> "y" [] c = "Z" -> "z" [] OTHER -> c

\* str.lower()
RECURSIVE Lower(_)
Lower(s) ==
    IF Len(s) = 0 THEN s
    ELSE LowerChar(SubSeq(s, 1, 1)) \o Lower(SubSeq(s, 2, Len(s)))

\* index of the last "." of s, 0 when there is none
RECURSIVE LastDot(_, _)
LastDot(s, i) ==
    IF i = 0 THEN 0 ELSE IF SubSeq(s, i, i) = "." THEN i ELSE LastDot(s, i - 1)

\* os.path.splitext(filename)[0] for a name without directory part: a leading
\* dot does not start an extension
SplitextRoot(s) ==
    LET i == LastDot(s, Len(s))
    IN  IF i <= 1 THEN s ELSE SubSeq(s, 1, i - 1)

\* line 135: f'texture_{tex_count}.png'
TextureName(tex_count) == "texture_" \o ToString(tex_count) \o ".png"

----------------------------------------------------------------------------
(* read_cpmmodel *)

\* lines 98-105: the balanced-brace scan from the byte after the opening brace
RECURSIVE BraceScan(_, _, _)
BraceScan(d, json_end, brace_count) ==
    IF json_end < Len(d) /\ brace_count > 0
    THEN BraceScan(d, json_end + 1,
                   IF At(d, json_end) = OpenBrace THEN brace_count + 1
                   ELSE IF At(d, json_end) = CloseBrace THEN brace_count - 1
                   ELSE brace_count)
    ELSE [brace_count |-> brace_count, json_end |-> json_end]

\* lines 92-115: for i in range(len(data) - 1), from offset i on
RECURSIVE JsonScan(_, _)
JsonScan(d, i) ==
    IF i >= Len(d) - 1 THEN [json_start |-> -1, model |-> JDict(<<>>)]
    ELSE IF At(d, i) # OpenBrace THEN JsonScan(d, i + 1)
    ELSE LET b == BraceScan(d, i + 1, 1) IN
         IF b.brace_count # 0 THEN JsonScan(d, i + 1)
         ELSE LET r == DecodeAndLoad(Slice(d, i, b.json_end)) IN
              IF r.ok THEN [json_start |-> i, model |-> r.val]
              ELSE JsonScan(d, i + 1)

\* line 131: png_end += 8  (IEND + CRC)
\* (a variant that leaves the checksum out, for the sensitivity of C2)
PngEndNoCrc(png_end) == png_end + 4
PngEnd(png_end) == png_end + 8

\* line 142: search_start = png_pos + 1
NextSearchStart(png_pos) == png_pos + 1

\* lines 122-142: the while True loop, from search_start with tex_count found
RECURSIVE PngScan(_, _, _, _)
PngScan(d, search_start, tex_count, textures) ==
    LET png_pos == Find(d, png_signature, search_start) IN
    IF png_pos = -1 THEN textures
    ELSE LET png_end == Find(d, IEND, png_pos) IN
         IF png_end # -1
         THEN PngScan(d, NextSearchStart(png_pos), tex_count + 1,
                      Append(textures,
                             [name |-> TextureName(tex_count),
                              data |-> Slice(d, png_pos, PngEnd(png_end))]))
         ELSE PngScan(d, NextSearchStart(png_pos), tex_count, textures)

\* line 145: if not model_data['model']
ModelIsEmpty(model) == ~Truthy(model)

\* lines 144-153
ModelOrSkeleton(model) == IF ModelIsEmpty(model) THEN FallbackSkeleton ELSE model

\* the empty dict {} of line 171
EmptyDict == <<>>

\* `not model_data` (line 264)
\* (a variant that also rejects a result without textures, for C6)
IsEmptyDictOrNothingFound(md) ==
    DOMAIN md = {} \/ ("textures" \in DOMAIN md /\ md.textures = <<>>)
IsEmptyDict(md) == DOMAIN md = {}

\* lines 76-171: read_cpmmodel(file_path) on a file holding d; readFails is an
\* open()/read() that raises, which the except of line 169 turns into {}
read_cpmmodel(file_path, d, readFails) ==
    IF readFails THEN EmptyDict
    ELSE [textures |-> PngScan(d, 0, 0, <<>>),
          model |-> ModelOrSkeleton(JsonScan(d, 0).model),
          animations |-> JDict(<<>>),
          metadata |-> [filename |-> file_path,
                        model_name |-> SplitextRoot(file_path),
                        file_size |-> Len(d)]]

----------------------------------------------------------------------------
(* create_cpmproject *)

\* dict.get(key, default) on a dictionary with string keys
Get(rec, key, default) == IF key \in DOMAIN rec THEN rec[key] ELSE default

\* the content of an archive entry: raw bytes, or the text json.dumps gives for
\* a document (the text is a function of the document alone; its layout is
\* not modelled)
Bytes(b) == [t |-> "bytes", v |-> b]
JsonDumps(doc) == [t |-> "json", v |-> <<doc>>]

\* zipf.writestr(name, content)
Entry(name, content) == [name |-> name, data |-> content]

\* lines 180-187
ProjectInfo(md) ==
    LET metadata == Get(md, "metadata", EmptyDict)
    IN  [version |-> "0.6.0",
         name |-> Get(metadata, "model_name", "Converted Model"),
         description |-> "Converted from " \o Get(metadata, "filename", ".cpmmodel"),
         author |-> "CPM Converter",
         exportVersion |-> "1.0.0"]

\* line 196: not model_json or not model_json.get('parts')
\* (a variant that tests the document alone, for the sensitivity of C4)
UseDefaultOnlyWhenEmpty(model_json) == ~Truthy(model_json)
UseDefault(model_json) ==
    \/ ~Truthy(model_json)
    \/ ~HasKey(model_json, K_parts)
    \/ ~Truthy(DictGet(model_json, K_parts))

\* lines 193-213: the document written as model.json
ModelJson(md) ==
    LET model_json == Get(md, "model", JDict(<<>>))
    IN  IF UseDefault(model_json) THEN DefaultModel ELSE model_json

\* lines 224-227
TexPath(tex_name) ==
    IF ~StartsWith(tex_name, "textures/") THEN "textures/" \o tex_name ELSE tex_name

\* line 222: if tex_data
Writes(tex_data) == Len(tex_data) > 0

\* lines 218-231: the entries the loop writes for textures[i..], i 1-based here,
\* enumerate's index being i - 1
RECURSIVE TextureEntries(_, _)
TextureEntries(textures, i) ==
    IF i > Len(textures) THEN <<>>
    ELSE LET texture == textures[i]
             tex_name == Get(texture, "name", TextureName(i - 1))
             tex_data == Get(texture, "data", <<>>)
         IN  IF Writes(tex_data)
             THEN <<Entry(TexPath(tex_name), Bytes(tex_data))>>
                      \o TextureEntries(textures, i + 1)
             ELSE TextureEntries(textures, i + 1)

\* textures_added when the loop ends (line 217, 230)
TexturesAdded(md) == Len(TextureEntries(Get(md, "textures", <<>>), 1))

\* line 234: if textures_added == 0
\* (a variant that always writes the placeholder, for the sensitivity of C5)
KeepAlways(textures_added) == TRUE
NeedsKeep(textures_added) == textures_added = 0

\* the value create_cpmproject returns: the function has no return statement
\* (a variant that returns textures_added, for the sensitivity of C10)
CreateReturnsCount(md) == <<TexturesAdded(md)>>
CreateReturn(md) == <<>>

\* lines 177-243: create_cpmproject(model_data, output_path); writeFails is an
\* I/O error of the ZipFile, printed and re-raised by the except of line 241
create_cpmproject(md, writeFails) ==
    IF writeFails
    THEN [raised |-> "OSError", ret |-> <<>>, archive |-> <<>>]
    ELSE [raised |-> "",
          ret |-> CreateReturn(md),
          archive |->
              <<Entry("project.json", JsonDumps(ProjectInfo(md))),
                Entry("model.json", JsonDumps(ModelJson(md)))>>
              \o TextureEntries(Get(md, "textures", <<>>), 1)
              \o (IF NeedsKeep(TexturesAdded(md))
                  THEN <<Entry("textures/.keep", Bytes(<<>>))>> ELSE <<>>)
              \o <<Entry("animations/.keep", Bytes(<<>>))>>]

----------------------------------------------------------------------------
(* convert_cpmmodel_to_cpmproject *)

NoResult == [raised |-> "", ret |-> <<>>, archive |-> <<>>, reported |-> <<>>,
             model_data |-> EmptyDict]

\* line 252: input_path.lower().endswith('.cpmmodel')
HasCpmmodelExtension(name) == EndsWith(Lower(name), ".cpmmodel")

\* line 273: len(model_data.get('textures', []))
ReportedCount(md) == Len(Get(md, "textures", <<>>))

\* lines 277-279: except Exception: print, return False
\* (a variant that re-raises, for the sensitivity of C8)
OnPackagingErrorReraise(md, made) ==
    [NoResult EXCEPT !.raised = made.raised, !.model_data = md]
OnPackagingError(md, made) ==
    [NoResult EXCEPT !.ret = <<FALSE>>, !.model_data = md]

\* lines 264-266: if not model_data: return False
OnEmptyRead(md) == [NoResult EXCEPT !.ret = <<FALSE>>]

\* lines 249-250: raise FileNotFoundError
\* (a variant that returns False, for the sensitivity of C7)
OnMissingFileReturnFalse == [NoResult EXCEPT !.ret = <<FALSE>>]
OnMissingFile == [NoResult EXCEPT !.raised = "FileNotFoundError"]

\* lines 252-253: raise ValueError
OnWrongExtension == [NoResult EXCEPT !.raised = "ValueError"]

\* lines 245-279
convert_cpmmodel_to_cpmproject(input_path, exists, d, readFails, writeFails) ==
    IF ~exists THEN OnMissingFile
    ELSE IF ~HasCpmmodelExtension(input_path) THEN OnWrongExtension
    ELSE LET md == read_cpmmodel(input_path, d, readFails) IN
         IF IsEmptyDict(md) THEN OnEmptyRead(md)
         ELSE LET made == create_cpmproject(md, writeFails) IN
              IF made.raised # "" THEN OnPackagingError(md, made)
              ELSE [raised |-> "", ret |-> <<TRUE>>, archive |-> made.archive,
                    reported |-> <<ReportedCount(md)>>, model_data |-> md]

----------------------------------------------------------------------------
(* batch_convert *)

\* lines 298-301: the names of the listing that end in .cpmmodel, in order
RECURSIVE CpmmodelFiles(_)
CpmmodelFiles(listing) ==
    IF listing = <<>> THEN <<>>
    ELSE (IF HasCpmmodelExtension(Head(listing).name) THEN <<Head(listing)>> ELSE <<>>)
         \o CpmmodelFiles(Tail(listing))

Converted(r) == r.raised = "" /\ r.ret = <<TRUE>>

\* lines 319-328: the counters after one conversion with outcome r
Count(res, r) ==
    IF Converted(r) THEN [res EXCEPT !.success = @ + 1]
    ELSE [res EXCEPT !.failed = @ + 1]

\* line 312: the for loop goes on to the next file whatever the outcome r
\* (a variant that leaves the loop at the first failure, for C9)
NextIndexStopOnFailure(i, total, r) == IF Converted(r) THEN i + 1 ELSE total + 1
NextIndex(i, total, r) == i + 1

----------------------------------------------------------------------------
(* Inputs *)

RECURSIVE Flatten(_)
Flatten(chunks) == IF chunks = <<>> THEN <<>> ELSE Head(chunks) \o Flatten(Tail(chunks))

\* d is the concatenation of at most n chunks
IsBuffer(d, chunks, n) == \E k \in 0..n : \E cs \in [1..k -> chunks] : d = Flatten(cs)

PartsKey == <<34>> \o K_parts \o <<34, 58>>      \* "parts":

JsonChunks ==
    { <<OpenBrace>>, <<CloseBrace>>, PartsKey,
      <<91, 49, 93>>,     \* [1]
      <<91, 93>>,         \* []
      <<48>>,             \* 0
      <<49>>,             \* 1
      <<34, 125, 34>>,    \* "}", a string literal holding a brace
      <<255>> }           \* a byte that is not UTF-8

Crc == <<0, 0, 0, 0>>

PngChunks == { png_signature, IEND, Crc, <<0>> }

PartsDocument == <<OpenBrace>> \o PartsKey \o <<91, 49, 93, CloseBrace>>   \* {"parts":[1]}

ConvertChunks == { png_signature, IEND, Crc, PartsDocument }

ReadPaths == { "knight.cpmmodel" }
InputPaths == { "knight.cpmmodel", "KNIGHT.CPMMODEL", "knight.txt" }

NoCall == [op |-> "", input_path |-> "", exists |-> TRUE, readFails |-> FALSE,
           writeFails |-> FALSE]

Idle ==
    /\ archive = <<>>
    /\ raised = ""
    /\ ret = <<>>
    /\ reported = <<>>
    /\ call = NoCall
    /\ idx = 0
    /\ results = [success |-> 0, failed |-> 0, total |-> 0]
    /\ attempts = <<>>

\* a file to scan
Init ==
    /\ \/ IsBuffer(data, JsonChunks, MaxJsonChunks)
       \/ IsBuffer(data, PngChunks, MaxPngChunks)
    /\ model_data = EmptyDict
    /\ files = <<>>
    /\ pc = "start"
    /\ Idle

\* a file to convert
InitConvert ==
    /\ IsBuffer(data, ConvertChunks, MaxConvertChunks)
    /\ model_data = EmptyDict
    /\ files = <<>>
    /\ pc = "start"
    /\ Idle

\* textures a caller may hand to create_cpmproject: with and without the
\* textures/ prefix, with empty data, without name, without data
TextureInputs ==
    { [name |-> "texture_0.png", data |-> png_signature \o IEND \o Crc],
      [name |-> "textures/skin.png", data |-> <<1>>],
      [name |-> ".keep", data |-> <<2>>],
      [name |-> "empty.png", data |-> <<>>],
      [data |-> <<3>>],
      [name |-> "nodata.png"] }

ModelInputs ==
    { [model |-> FallbackSkeleton],
      [model |-> JDict(<<Member(K_parts, JList(<<JNum(1)>>))>>)],
      [metadata |-> [filename |-> "knight.cpmmodel", model_name |-> "knight",
                     file_size |-> 0]],
      [model |-> JDict(<<>>), metadata |-> EmptyDict] }

WithTextures(md, textures) ==
    [k \in DOMAIN md \cup {"textures"} |-> IF k = "textures" THEN textures ELSE md[k]]

\* an extraction result to package
InitPack ==
    /\ data = <<>>
    /\ \E md \in ModelInputs :
         \/ model_data = md
         \/ \E n \in 0..MaxTextures : \E textures \in [1..n -> TextureInputs] :
              model_data = WithTextures(md, textures)
    /\ files = <<>>
    /\ pc = "read"
    /\ Idle

FileNames == { "a.cpmmodel", "B.CPMMODEL", "notes.txt", "c.cpmmodel.bak" }

\* a directory entry: its name, its content, whether reading it fails
FileInputs ==
    { f \in [name : FileNames, data : {<<>>, png_signature \o IEND \o Crc},
             readFails : BOOLEAN] : f.readFails => f.data # <<>> }

\* a directory to convert: os.listdir gives its names in any order
InitBatch ==
    /\ data = <<>>
    /\ model_data = EmptyDict
    /\ \E n \in 0..MaxFiles : \E listing \in [1..n -> FileInputs] :
         /\ \A i, j \in 1..n : i # j => listing[i].name # listing[j].name
         /\ files = listing
    /\ pc = "batch"
    /\ Idle

----------------------------------------------------------------------------
(* Actions *)

\* a call of read_cpmmodel on the file
ReadCpmmodel ==
    /\ pc = "start"
    /\ \E input_path \in ReadPaths, readFails \in BOOLEAN :
         /\ model_data' = read_cpmmodel(input_path, data, readFails)
         /\ call' = [NoCall EXCEPT !.op = "read_cpmmodel", !.input_path = input_path,
                                   !.readFails = readFails]
    /\ pc' = "read"
    /\ UNCHANGED <<data, archive, raised, ret, reported, files, idx, results, attempts>>

\* a call of create_cpmproject on an extraction result
CreateCpmproject ==
    /\ pc = "read"
    /\ ~IsEmptyDict(model_data)
    /\ \E writeFails \in BOOLEAN :
      \E made \in {create_cpmproject(model_data, writeFails)} :
         /\ archive' = made.archive
         /\ raised' = made.raised
         /\ ret' = made.ret
         /\ call' = [NoCall EXCEPT !.op = "create_cpmproject", !.writeFails = writeFails]
    /\ pc' = "packed"
    /\ UNCHANGED <<data, model_data, reported, files, idx, results, attempts>>

\* a call of convert_cpmmodel_to_cpmproject
ConvertCpmmodelToCpmproject ==
    /\ pc = "start"
    /\ \E input_path \in InputPaths, exists \in BOOLEAN, readFails \in BOOLEAN,
          writeFails \in BOOLEAN :
         \E r \in {convert_cpmmodel_to_cpmproject(input_path, exists, data,
                                                 readFails, writeFails)} :
         /\ model_data' = r.model_data
         /\ archive' = r.archive
         /\ raised' = r.raised
         /\ ret' = r.ret
         /\ reported' = r.reported
         /\ call' = [op |-> "convert", input_path |-> input_path, exists |-> exists,
                     readFails |-> readFails, writeFails |-> writeFails]
    /\ pc' = "converted"
    /\ UNCHANGED <<data, files, idx, results, attempts>>

\* batch_convert, lines 294-310: list the directory, count, return at once
\* when nothing is to convert
BatchList ==
    /\ pc = "batch"
    /\ LET total == Len(CpmmodelFiles(files)) IN
       /\ results' = [success |-> 0, failed |-> 0, total |-> total]
       /\ idx' = 1
       /\ IF total = 0
          THEN pc' = "batch_done" /\ ret' = <<results'>>
          ELSE pc' = "batch_loop" /\ ret' = ret
    /\ UNCHANGED <<data, model_data, archive, raised, reported, files, attempts, call>>

\* batch_convert, lines 312-330: one iteration of the for loop.  The file may
\* have been removed since the listing (exists = FALSE).
BatchConvertFile ==
    /\ pc = "batch_loop"
    /\ idx <= results.total
    /\ \E exists \in BOOLEAN, writeFails \in BOOLEAN :
      \E file \in {CpmmodelFiles(files)[idx]} :
      \E r \in {convert_cpmmodel_to_cpmproject(file.name, exists, file.data,
                                                file.readFails, writeFails)} :
         /\ results' = Count(results, r)
         /\ attempts' = Append(attempts, [name |-> file.name, raised |-> r.raised,
                                          ret |-> r.ret])
         /\ idx' = NextIndex(idx, results.total, r)
         /\ data' = file.data
         /\ model_data' = r.model_data
         /\ archive' = r.archive
         /\ reported' = r.reported
         /\ call' = [op |-> "convert", input_path |-> file.name, exists |-> exists,
                     readFails |-> file.readFails, writeFails |-> writeFails]
    /\ UNCHANGED <<raised, ret, pc, files>>

\* batch_convert, lines 332-345: the loop is over, report and return results
BatchReturn ==
    /\ pc = "batch_loop"
    /\ idx > results.total
    /\ ret' = <<results>>
    /\ pc' = "batch_done"
    /\ UNCHANGED <<data, model_data, archive, raised, reported, files, idx, results,
                   attempts, call>>

Next == ReadCpmmodel \/ CreateCpmproject

Spec == Init /\ [][Next]_vars

NextConvert == ConvertCpmmodelToCpmproject

SpecConvert == InitConvert /\ [][NextConvert]_vars

NextPack == CreateCpmproject

SpecPack == InitPack /\ [][NextPack]_vars

NextBatch == BatchList \/ BatchConvertFile \/ BatchReturn

SpecBatch == InitBatch /\ [][NextBatch]_vars

----------------------------------------------------------------------------
(* Properties *)

Min(S) == CHOOSE x \in S : \A y \in S : x <= y

Extracted == pc = "read" /\ ~IsEmptyDict(model_data)
Packed == pc = "packed" /\ raised = ""
ConvertCalled == pc = "converted" /\ call.op = "convert"
Admitted == call.exists /\ HasCpmmodelExtension(call.input_path)

\* depth of the brace counter after byte k, for an opening brace at offset i
Depth(d, i, k) ==
    1 + Cardinality({m \in (i + 1)..k : At(d, m) = OpenBrace})
      - Cardinality({m \in (i + 1)..k : At(d, m) = CloseBrace})

\* offsets at which the depth counter of the brace at i is 0
Closings(d, i) == {k \in (i + 1)..(Len(d) - 1) : Depth(d, i, k) = 0}

\* bytes [i..j] of the balanced range that starts at i
BalancedRange(d, i) == SubSeq(d, i + 1, Min(Closings(d, i)) + 1)

\* offsets i whose balanced range exists, decodes and parses
Candidates(d) ==
    {i \in 0..(Len(d) - 1) :
        /\ At(d, i) = OpenBrace
        /\ Closings(d, i) # {}
        /\ DecodeAndLoad(BalancedRange(d, i)).ok}

ParsedAtFirstCandidate(d) == DecodeAndLoad(BalancedRange(d, Min(Candidates(d)))).val

\* C1: whenever some offset holds a '{' whose balanced-brace range decodes and
\* parses, the model read_cpmmodel returns is the parsed value of the range at
\* the lowest such offset.
C1_ModelIsFirstParsedRange ==
    (Extracted /\ Candidates(data) # {})
        => model_data.model = ParsedAtFirstCandidate(data)

\* offsets at which the PNG signature occurs
SigOffsets(d) == {p \in 0..(Len(d) - 8) : MatchAt(d, png_signature, p)}

\* offsets >= p at which IEND occurs
IendFrom(d, p) == {e \in p..(Len(d) - 4) : MatchAt(d, IEND, e)}

\* every signature is followed by an IEND and 4 bytes of checksum, and the next
\* signature starts only after that checksum
WellFormed(d) ==
    \A p \in SigOffsets(d) :
        /\ IendFrom(d, p) # {}
        /\ Min(IendFrom(d, p)) + 8 <= Len(d)
        /\ \A q \in SigOffsets(d) : q > p => q >= Min(IendFrom(d, p)) + 8

\* C2: on a buffer of N well-formed, non-overlapping images read_cpmmodel
\* returns exactly N textures, the k-th (from 0) named texture_k.png and
\* holding the bytes from the k-th signature to the end of its checksum.
C2_WellFormedImagesRecovered ==
    (Extracted /\ WellFormed(data)) =>
        /\ Len(model_data.textures) = Cardinality(SigOffsets(data))
        /\ \A p \in SigOffsets(data) :
             LET k == Cardinality({q \in SigOffsets(data) : q < p})
             IN  /\ model_data.textures[k + 1].name
                        = "texture_" \o ToString(k) \o ".png"
                 /\ model_data.textures[k + 1].data
                        = SubSeq(data, p + 1, Min(IendFrom(data, p)) + 8)

C2_Witness ==
    /\ Extracted
    /\ WellFormed(data)
    /\ Len(model_data.textures) = 2
    /\ model_data.textures[2].name = "texture_1.png"

\* the texture is the full range [p, e + 8) of the buffer for a signature at p
\* and the first IEND e at or after p
IsFullRange(d, tex, p) ==
    /\ IendFrom(d, p) # {}
    /\ Min(IendFrom(d, p)) + 8 <= Len(d)
    /\ tex.data = SubSeq(d, p + 1, Min(IendFrom(d, p)) + 8)

\* C3: on every buffer, each texture is a full range [P, E+8) of the buffer,
\* so it ends with IEND and 4 bytes of checksum, and successive textures start
\* at strictly increasing offsets.
C3_TexturesAreFullRanges ==
    Extracted =>
        /\ \A k \in 1..Len(model_data.textures) :
             \E p \in SigOffsets(data) : IsFullRange(data, model_data.textures[k], p)
        /\ \A k \in 1..(Len(model_data.textures) - 1) :
             \E p, q \in SigOffsets(data) :
                /\ p < q
                /\ IsFullRange(data, model_data.textures[k], p)
                /\ IsFullRange(data, model_data.textures[k + 1], q)

\* the content of the entry model.json, written second
ModelJsonWritten == archive[2].name = "model.json" /\ archive[2].data.t = "json"
ModelJsonDoc == archive[2].data.v[1]

HasParts(m) == \E i \in 1..Len(m.v) : m.v[i].k = K_parts
PartsOf(m) == m.v[CHOOSE i \in 1..Len(m.v) : m.v[i].k = K_parts].val

\* parts is a non-empty list
PartsNonEmptyList(m) ==
    HasParts(m) /\ PartsOf(m).t = "list" /\ PartsOf(m).v # <<>>

\* parts is a value Python takes as true: a non-empty list, string or object,
\* or a number other than 0
PartsTrue(m) ==
    /\ HasParts(m)
    /\ \/ PartsOf(m).t \in {"list", "str", "dict"} /\ PartsOf(m).v # <<>>
       \/ PartsOf(m).t = "num" /\ PartsOf(m).v # <<0>>

\* C4 as stated: model.json is the recovered document when its parts is a
\* non-empty list and the canonical default document in every other case.
C4_VerbatimIffNonEmptyList ==
    Packed =>
        /\ ModelJsonWritten
        /\ ModelJsonDoc = IF PartsNonEmptyList(model_data.model)
                          THEN model_data.model ELSE DefaultModel

\* C4 (amended): model.json is the recovered document when its parts is true
\* for Python (non-empty list, string or object, number other than 0) and the
\* canonical default document in every other case; the version-1 skeleton is
\* never written.
C4_VerbatimIffPartsTrue ==
    Packed =>
        /\ ModelJsonWritten
        /\ ModelJsonDoc = IF PartsTrue(model_data.model)
                          THEN model_data.model ELSE DefaultModel
        /\ ModelJsonDoc # FallbackSkeleton

C4_Witness ==
    /\ Packed
    /\ PartsTrue(model_data.model)
    /\ ~PartsNonEmptyList(model_data.model)
    /\ ModelJsonDoc = model_data.model

\* indices of the textures handed over that have non-empty data
WithData(md) ==
    IF "textures" \notin DOMAIN md THEN {}
    ELSE {i \in 1..Len(md.textures) :
            "data" \in DOMAIN md.textures[i] /\ md.textures[i].data # <<>>}

\* the entry name of texture i
ExpectedPath(md, i) ==
    LET name == IF "name" \in DOMAIN md.textures[i] THEN md.textures[i].name
                ELSE "texture_" \o ToString(i - 1) \o ".png"
    IN  IF Len(name) >= 9 /\ SubSeq(name, 1, 9) = "textures/" THEN name
        ELSE "textures/" \o name

IsEmptyEntry(e, name) == e.name = name /\ e.data = Bytes(<<>>)

\* C5: the archive of a successful create_cpmproject holds the empty entry
\* textures/.keep exactly when no texture was written, always ends with the
\* empty entry animations/.keep, holds each texture with data at its
\* textures/ path in order, and holds nothing for a texture without data.
C5_ArchiveLayout ==
    Packed =>
        LET n == Cardinality(WithData(model_data))
            keep == IF n = 0 THEN 1 ELSE 0
        IN  /\ Len(archive) = 2 + n + keep + 1
            /\ \A i \in WithData(model_data) :
                 LET r == Cardinality({j \in WithData(model_data) : j <= i})
                 IN  archive[2 + r] = Entry(ExpectedPath(model_data, i),
                                            Bytes(model_data.textures[i].data))
            /\ (\E i \in 1..Len(archive) : IsEmptyEntry(archive[i], "textures/.keep"))
                    <=> n = 0
            /\ IsEmptyEntry(archive[Len(archive)], "animations/.keep")
            /\ Cardinality({i \in 1..Len(archive) :
                               IsEmptyEntry(archive[i], "animations/.keep")}) = 1

C5_Witness ==
    /\ Packed
    /\ "textures" \in DOMAIN model_data
    /\ Len(model_data.textures) = 2
    /\ Cardinality(WithData(model_data)) = 1
    /\ \E i \in 1..Len(archive) : archive[i].name = "textures/skin.png"

ZeroLength == ConvertCalled /\ Admitted /\ Len(data) = 0

\* C6 as stated: converting an existing, zero-length .cpmmodel file does not
\* raise and returns False.
C6_ZeroLengthFails == ZeroLength => (raised = "" /\ ret = <<FALSE>>)

\* C6 (amended): converting an existing, zero-length .cpmmodel file does not
\* raise; it returns True, having written the canonical default model.json
\* and reported 0 textures, unless reading the file or writing the archive
\* fails, and False in those two cases.
C6_ZeroLengthSucceeds ==
    ZeroLength =>
        /\ raised = ""
        /\ ret = <<(~call.readFails /\ ~call.writeFails)>>
        /\ ret = <<TRUE>> =>
              /\ ModelJsonWritten
              /\ ModelJsonDoc = DefaultModel
              /\ reported = <<0>>
              /\ \E i \in 1..Len(archive) : IsEmptyEntry(archive[i], "textures/.keep")

C6_Witness == ZeroLength /\ ret = <<TRUE>> /\ Len(archive) = 4

\* C7 as stated: convert_cpmmodel_to_cpmproject never raises, it returns a
\* boolean for every input.
C7_NeverRaises == ConvertCalled => (raised = "" /\ ret \in {<<TRUE>>, <<FALSE>>})

\* C7 (amended): convert_cpmmodel_to_cpmproject raises FileNotFoundError for a
\* missing file and ValueError for a path that does not end in .cpmmodel; for
\* every other input it does not raise and returns True when the file was read
\* and the archive written, False when either failed.
C7_RaisesOnlyOnPreconditions ==
    ConvertCalled =>
        /\ ~call.exists => (raised = "FileNotFoundError" /\ ret = <<>>)
        /\ (call.exists /\ ~HasCpmmodelExtension(call.input_path))
              => (raised = "ValueError" /\ ret = <<>>)
        /\ Admitted => (raised = "" /\ ret = <<(~call.readFails /\ ~call.writeFails)>>)

C7_Witness == ConvertCalled /\ ~call.exists /\ raised = "FileNotFoundError"

PackagingFailed == ConvertCalled /\ Admitted /\ ~call.readFails /\ call.writeFails

\* C8 as stated: an I/O error of create_cpmproject is re-raised by
\* convert_cpmmodel_to_cpmproject to its caller.
C8_PackagingErrorReraised == PackagingFailed => raised = "OSError"

\* C8 (amended): an I/O error of create_cpmproject propagates out of
\* create_cpmproject to convert_cpmmodel_to_cpmproject, which reports it and
\* returns False to its caller; it does not re-raise.
C8_PackagingErrorReturnsFalse ==
    PackagingFailed =>
        /\ create_cpmproject(model_data, TRUE).raised = "OSError"
        /\ raised = ""
        /\ ret = <<FALSE>>
        /\ reported = <<>>

C8_Witness == PackagingFailed /\ ret = <<FALSE>> /\ Len(model_data.textures) > 0

\* the directory entries whose names end in .cpmmodel, whatever the case
Wanted == SelectSeq(files, LAMBDA f : HasCpmmodelExtension(f.name))

Succeeded(a) == a.raised = "" /\ a.ret = <<TRUE>>

\* C9: batch_convert attempts every .cpmmodel file of the directory exactly
\* once, in the order of the listing, whatever the outcome of the earlier
\* ones; while it runs success + failed counts the attempts made, and when it
\* returns total is the number of such files, success + failed = total and
\* success counts the conversions that returned True.
C9_BatchAttemptsEveryFile ==
    /\ pc = "batch_loop" =>
          /\ idx = Len(attempts) + 1
          /\ idx <= results.total + 1
          /\ results.success + results.failed = Len(attempts)
    /\ pc \in {"batch_loop", "batch_done"} =>
          /\ results.total = Len(Wanted)
          /\ \A i \in 1..Len(attempts) : attempts[i].name = Wanted[i].name
          /\ results.success
                = Cardinality({i \in 1..Len(attempts) : Succeeded(attempts[i])})
    /\ pc = "batch_done" =>
          /\ Len(attempts) = Len(Wanted)
          /\ results.success + results.failed = results.total
          /\ ret = <<results>>

C9_Witness ==
    /\ pc = "batch_done"
    /\ Len(attempts) = 2
    /\ attempts[1].raised # ""
    /\ Succeeded(attempts[2])
    /\ Len(files) > Len(attempts)
    /\ results = [success |-> 1, failed |-> 1, total |-> 2]

\* entries of the archive that hold texture bytes
WrittenTextures ==
    {i \in 3..Len(archive) : archive[i].data.t = "bytes" /\ archive[i].data.v # <<>>}

\* C10 as stated: create_cpmproject returns the number of textures it wrote.
C10_ReturnsWrittenCount == Packed => ret = <<Cardinality(WrittenTextures)>>

\* C10 (amended): create_cpmproject returns nothing; the number the caller
\* reports is the length of the extraction result's texture list, which for
\* every result of read_cpmmodel equals the number of textures written.
C10_ReportsExtractedCount ==
    Packed =>
        /\ ret = <<>>
        /\ ReportedCount(model_data) = Cardinality(WrittenTextures)

C10_Witness == Packed /\ ret = <<>> /\ Cardinality(WrittenTextures) = 2

=============================================================================
